---------------------------- MODULE Spec2Model ----------------------------
(***************************************************************************)
(* Grayscale morphological reconstruction (cucim.skimage.morphology).      *)
(*                                                                         *)
(* reconstruction(seed, mask, method, footprint, offset) validates its     *)
(* arguments, embeds seed and mask in one padded two-channel buffer,       *)
(* ranks the buffer, links the flat positions in sorted order and hands    *)
(* ranks, list and neighbour strides to reconstruction_loop, the downhill  *)
(* filter.  One call is one run of the state machine below; a finished     *)
(* call may be followed by a second call that takes the returned image as  *)
(* its seed.                                                               *)
(*                                                                         *)
(* Arrays are functions over 0..n-1, as the code indexes them; the         *)
(* caller's images, shapes and coordinates are sequences in C order.       *)
(***************************************************************************)
EXTENDS Integers, Sequences, FiniteSets, TLC

VARIABLES
    seed, mask,         \* the caller's images, flattened in C order
    shape, mshape,      \* seed.shape and mask.shape
    method,             \* the method string
    dtype,              \* element type of seed and mask
    footprint,          \* [given, shape, cells]: the footprint argument
    offset,             \* [given, coords]: the offset argument
    ties,               \* how argsort orders equal values in this run
    pc,                 \* position of the call
    fp,                 \* the footprint array after line 157/172 (cells)
    off,                \* the offset in use after line 162/169
    images,             \* the flat two-channel buffer
    nb_strides,         \* neighbour deltas
    ranks, prev, next,  \* value_rank and the linked list
    value_map,          \* rank -> value
    start,              \* index_sorted[0]
    cur, nbi,           \* reconstruction_loop: current_idx and neighbour counter
    result,             \* the returned image (flattened), <<>> before return
    call, out1          \* 1 or 2; the image the first call returned

vars == <<seed, mask, shape, mshape, method, dtype, footprint, offset, ties, pc,
          fp, off, images, nb_strides, ranks, prev, next, value_map, start,
          cur, nbi, result, call, out1>>

-----------------------------------------------------------------------------
(* Bounds of the model. *)

MaxLen == 2
MaxVal == 2

-----------------------------------------------------------------------------
(* Array arithmetic. *)

RECURSIVE Prod(_)
Prod(s) == IF s = <<>> THEN 1 ELSE Head(s) * Prod(Tail(s))

Min(S) == CHOOSE x \in S : \A y \in S : x <= y
Max(S) == CHOOSE x \in S : \A y \in S : x >= y
Range(f) == {f[x] : x \in DOMAIN f}

\* C-order strides, in elements, of an array of shape dims.
CStrides(dims) == [i \in 1..Len(dims) |-> Prod(SubSeq(dims, i + 1, Len(dims)))]

\* Coordinates of flat index k in an array of shape dims.
Unravel(k, dims) ==
    LET st == CStrides(dims)
    IN  [i \in 1..Len(dims) |-> (k \div st[i]) % dims[i]]

RECURSIVE SumTo(_, _)
SumTo(f, n) == IF n = 0 THEN 0 ELSE f[n] + SumTo(f, n - 1)

\* np.sum(strides * coords)
Dot(strides, coords) == SumTo([i \in 1..Len(strides) |-> strides[i] * coords[i]], Len(strides))


-----------------------------------------------------------------------------
(* Element types.  Values are stored in the promoted type of seed and mask *)
(* (line 189); unary minus on a fixed-width integer array wraps.           *)

Uint8Modulus == 256
Int8Min == -128

Negate(t, v) ==
    CASE t = "uint8" -> (Uint8Modulus - v) % Uint8Modulus
      [] t = "int8"  -> IF v = Int8Min THEN Int8Min ELSE -v
      [] OTHER       -> -v

-----------------------------------------------------------------------------
(* Lines 135-142: shape assertion and the seed/mask ordering check. *)

\* The ordering check written with >= in place of >.
SeedAboveMask_OrEqual(s, m) == \E k \in 1..Len(s) : s[k] >= m[k]

SeedAboveMask(s, m) == \E k \in 1..Len(s) : s[k] > m[k]
SeedBelowMask(s, m) == \E k \in 1..Len(s) : s[k] < m[k]

ValidateOutcome(s, m, sshape, msh, meth) ==
    IF sshape # msh THEN "ShapeMismatch"
    ELSE IF meth = "dilation" /\ SeedAboveMask(s, m) THEN "InvalidSeedMask"
    ELSE IF meth = "erosion" /\ SeedBelowMask(s, m) THEN "InvalidSeedMask"
    ELSE "footprint"

Validate ==
    /\ pc = "check"
    /\ pc' = ValidateOutcome(seed, mask, shape, mshape, method)
    /\ UNCHANGED <<seed, mask, shape, mshape, method, dtype, footprint, offset,
                   ties, fp, off, images, nb_strides, ranks, prev, next,
                   value_map, start, cur, nbi, result, call, out1>>

-----------------------------------------------------------------------------
(* Lines 152-172: default footprint, offset validation, centre cleared. *)

\* np.ones([3] * seed.ndim, dtype=bool)
DefaultFootprintShape(ndim) == [i \in 1..ndim |-> 3]

FootprintShape(f, ndim) == IF f.given THEN f.shape ELSE DefaultFootprintShape(ndim)
FootprintCells(f, ndim) ==
    IF f.given THEN f.cells
    ELSE [k \in 1..Prod(DefaultFootprintShape(ndim)) |-> TRUE]

AllOdd(fshape) == \A i \in 1..Len(fshape) : fshape[i] % 2 = 1
DefaultOffset(fshape) == [i \in 1..Len(fshape) |-> fshape[i] \div 2]

\* zip(offset, footprint.shape) stops at the shorter of the two.
ZipLen(a, b) == IF Len(a) < Len(b) THEN Len(a) ELSE Len(b)
OffsetInside(o, fshape) ==
    \A i \in 1..ZipLen(o, fshape) : 0 <= o[i] /\ o[i] < fshape[i]

\* Lines 159-172 as one decision: the error raised, or "layout".
FootprintOutcome(f, o, ndim) ==
    LET fshape == FootprintShape(f, ndim)
    IN  IF ~o.given
        THEN IF AllOdd(fshape) THEN "layout" ELSE "InvalidFootprint"
        ELSE IF o.ndim # Len(fshape) THEN "InvalidOffset"
        ELSE IF ~OffsetInside(o.coords, fshape) THEN "InvalidOffset"
        ELSE IF Len(o.coords) > Len(fshape) THEN "IndexError"
        ELSE "layout"

OffsetInUse(f, o, ndim) ==
    IF o.given THEN o.coords ELSE DefaultOffset(FootprintShape(f, ndim))

\* footprint[tuple(slice(d, d + 1) for d in offset)] = False
ClearCenter(cells, fshape, o) ==
    [cells EXCEPT ![Dot(CStrides(fshape), o) + 1] = FALSE]

PrepareFootprint ==
    /\ pc = "footprint"
    /\ LET ndim == Len(shape)
           outcome == FootprintOutcome(footprint, offset, ndim)
       IN  /\ pc' = outcome
           /\ IF outcome = "layout"
              THEN /\ off' = OffsetInUse(footprint, offset, ndim)
                   /\ fp' = ClearCenter(FootprintCells(footprint, ndim),
                                        FootprintShape(footprint, ndim),
                                        OffsetInUse(footprint, offset, ndim))
              ELSE UNCHANGED <<fp, off>>
    /\ UNCHANGED <<seed, mask, shape, mshape, method, dtype, footprint, offset,
                   ties, images, nb_strides, ranks, prev, next, value_map,
                   start, cur, nbi, result, call, out1>>

-----------------------------------------------------------------------------
(* Lines 174-217: padded buffer and neighbour strides. *)

\* dims[1:]: s1 + s2 - 1 per axis
PaddedShape(sshape, fshape) == [i \in 1..Len(sshape) |-> sshape[i] + fshape[i] - 1]

\* images.strides[0] // itemsize
ImageStride(sshape, fshape) == Prod(PaddedShape(sshape, fshape))

\* inside_slices: slice(o, o + s) per axis
Inside(c, o, sshape) == \A i \in 1..Len(sshape) : o[i] <= c[i] /\ c[i] < o[i] + sshape[i]

PadValue(meth, s) == IF meth = "dilation" THEN Min(Range(s)) ELSE Max(Range(s))

\* The two channels filled the other way round: mask first, seed second.
BuildImages_Swapped(s, m, sshape, fshape, o, pad) ==
    LET padded == PaddedShape(sshape, fshape)
        P == Prod(padded)
        cell(k) ==
            LET c == Unravel(k % P, padded)
                src == IF k < P THEN m ELSE s
            IN  IF Inside(c, o, sshape)
                THEN src[Dot(CStrides(sshape), [i \in 1..Len(sshape) |-> c[i] - o[i]]) + 1]
                ELSE pad
    IN  [k \in 0..(2 * P - 1) |-> cell(k)]

BuildImages(s, m, sshape, fshape, o, pad) ==
    LET padded == PaddedShape(sshape, fshape)
        P == Prod(padded)
        cell(k) ==
            LET c == Unravel(k % P, padded)
                src == IF k < P THEN s ELSE m
            IN  IF Inside(c, o, sshape)
                THEN src[Dot(CStrides(sshape), [i \in 1..Len(sshape) |-> c[i] - o[i]]) + 1]
                ELSE pad
    IN  [k \in 0..(2 * P - 1) |-> cell(k)]

\* footprint_mgrid[:, footprint]: the offsets of the set cells, in C order,
\* each multiplied into value_stride.
RECURSIVE StridesFrom(_, _, _, _, _)
StridesFrom(k, cells, fshape, o, value_stride) ==
    IF k > Len(cells) THEN <<>>
    ELSE LET c == Unravel(k - 1, fshape)
             d == Dot(value_stride, [i \in 1..Len(fshape) |-> c[i] - o[i]])
         IN  (IF cells[k] THEN <<d>> ELSE <<>>)
             \o StridesFrom(k + 1, cells, fshape, o, value_stride)

\* The grid taken from the cell to the centre: slice(o - d + 1, o + 1).
NbStrides_Mirrored(cells, fshape, o, sshape) ==
    LET st == StridesFrom(1, cells, fshape, o, CStrides(PaddedShape(sshape, fshape)))
    IN  [i \in 1..Len(st) |-> -st[Len(st) + 1 - i]]

NbStrides(cells, fshape, o, sshape) ==
    StridesFrom(1, cells, fshape, o, CStrides(PaddedShape(sshape, fshape)))

\* The order in which the loop is handed the deltas: the order of line 212,
\* or, in a run that takes every order (tie rule "any"), any order.
StrideOrders(strides, rule) ==
    IF rule = "any"
    THEN {[i \in 1..Len(strides) |-> strides[q[i]]] :
            q \in {f \in [1..Len(strides) -> 1..Len(strides)] :
                      \A a, b \in 1..Len(strides) : a # b => f[a] # f[b]}}
    ELSE {strides}

\* No final else branch: any other method is run as an erosion.
MethodKnown_Any(meth) == TRUE

MethodKnown(meth) == meth \in {"dilation", "erosion"}

BuildLayout ==
    /\ pc = "layout"
    /\ LET fshape == FootprintShape(footprint, Len(shape))
       IN  IF MethodKnown(method)
           THEN /\ pc' = "sort"
                /\ images' = BuildImages(seed, mask, shape, fshape, off,
                                         PadValue(method, seed))
                /\ nb_strides' \in StrideOrders(NbStrides(fp, fshape, off, shape), ties)
           ELSE /\ pc' = "InvalidMethod"
                /\ UNCHANGED <<images, nb_strides>>
    /\ UNCHANGED <<seed, mask, shape, mshape, method, dtype, footprint, offset,
                   ties, fp, off, ranks, prev, next, value_map, start, cur,
                   nbi, result, call, out1>>

-----------------------------------------------------------------------------
(* Lines 219-229: argsort and the linked list. *)

Terminator == -1

\* Position k's place in an ascending sort that keeps equal values in index
\* order (rule "index") or in reverse index order (rule "reverse").
PlaceOf(img, k, rule) ==
    Cardinality({j \in DOMAIN img :
                    \/ img[j] < img[k]
                    \/ /\ img[j] = img[k]
                       /\ IF rule = "index" THEN j < k ELSE j > k})

FixedArgsort(img, rule) ==
    [r \in DOMAIN img |-> CHOOSE k \in DOMAIN img : PlaceOf(img, k, rule) = r]

\* Every ascending order of the positions left in rem, as sequences.
RECURSIVE AscendingOrders(_, _)
AscendingOrders(img, rem) ==
    IF rem = {} THEN {<<>>}
    ELSE LET low == {k \in rem : \A j \in rem : img[k] <= img[j]}
         IN  UNION {{<<k>> \o t : t \in AscendingOrders(img, rem \ {k})} : k \in low}

Reversed(a) == LET n == Cardinality(DOMAIN a) IN [r \in DOMAIN a |-> a[n - 1 - r]]

\* A sort that may also return the positions in descending order.
Argsorts_Unsorted(img, rule) ==
    IF rule = "any"
    THEN {FixedArgsort(img, "index"), Reversed(FixedArgsort(img, "index"))}
    ELSE {FixedArgsort(img, rule)}

\* cp.argsort(images): the orders the sort may return under the run's tie rule.
Argsorts(img, rule) ==
    IF rule = "any"
    THEN {[r \in DOMAIN img |-> sq[r + 1]] : sq \in AscendingOrders(img, DOMAIN img)}
    ELSE {FixedArgsort(img, rule)}

\* Erosion goes smallest to largest; dilation goes largest to smallest.
IndexSorted(a, meth) == IF meth = "dilation" THEN Reversed(a) ELSE a

PlaceIn(index_sorted, k) == CHOOSE r \in DOMAIN index_sorted : index_sorted[r] = k

LinkPrev(index_sorted) ==
    [k \in DOMAIN index_sorted |->
        LET r == PlaceIn(index_sorted, k)
        IN  IF r = 0 THEN Terminator ELSE index_sorted[r - 1]]

LinkNext(index_sorted) ==
    LET n == Cardinality(DOMAIN index_sorted)
    IN  [k \in DOMAIN index_sorted |->
            LET r == PlaceIn(index_sorted, k)
            IN  IF r = n - 1 THEN Terminator ELSE index_sorted[r + 1]]

SortAndLink ==
    /\ pc = "sort"
    /\ \E a \in Argsorts(images, ties) :
          LET index_sorted == IndexSorted(a, method)
          IN  /\ prev' = LinkPrev(index_sorted)
              /\ next' = LinkNext(index_sorted)
              /\ start' = index_sorted[0]
    /\ pc' = "rank"
    /\ UNCHANGED <<seed, mask, shape, mshape, method, dtype, footprint, offset,
                   ties, fp, off, images, nb_strides, ranks, value_map, cur,
                   nbi, result, call, out1>>

-----------------------------------------------------------------------------
(* Lines 231-240: the rank transform. *)

\* rank_order: dense ranks of the values, and the distinct values in order.
RankOf(values, v) == Cardinality({u \in values : u < v})
RankOrderRanks(img) == [k \in DOMAIN img |-> RankOf(Range(img), img[k])]
RankOrderValues(img) ==
    LET values == Range(img)
    IN  [r \in 0..(Cardinality(values) - 1) |->
            CHOOSE v \in values : RankOf(values, v) = r]

\* The array handed to rank_order: images, or -images for erosion.
Ranked(img, meth, t) ==
    IF meth = "erosion" THEN [k \in DOMAIN img |-> Negate(t, img[k])] ELSE img

ValueRank(img, meth, t) == RankOrderRanks(Ranked(img, meth, t))

ValueMap(img, meth, t) ==
    LET original_values == RankOrderValues(Ranked(img, meth, t))
    IN  IF meth = "erosion"
        THEN [r \in DOMAIN original_values |-> Negate(t, original_values[r])]
        ELSE original_values

RankTransform ==
    /\ pc = "rank"
    /\ ranks' = ValueRank(images, method, dtype)
    /\ value_map' = ValueMap(images, method, dtype)
    /\ cur' = start
    /\ nbi' = 0
    /\ pc' = "loop"
    /\ UNCHANGED <<seed, mask, shape, mshape, method, dtype, footprint, offset,
                   ties, fp, off, images, nb_strides, prev, next, start,
                   result, call, out1>>

-----------------------------------------------------------------------------
(* Lines 241-242: reconstruction_loop(value_rank, prev, next, nb_strides,  *)
(* start, image_stride), the downhill filter of scikit-image.  It walks    *)
(* the list from start; at a seed-channel position of non-zero rank it     *)
(* looks at every neighbour current_idx + stride, and a neighbour ranked   *)
(* below both the current position and its own mask-channel counterpart   *)
(* is raised to the smaller of the two and moved in the list to just       *)
(* behind the position whose rank it now has.  The walk ends at the        *)
(* terminator or at the first seed-channel position of rank 0.             *)
(* An engine state is a record [ranks, prev, next, cur, nbi].              *)

ImageStrideNow == ImageStride(shape, FootprintShape(footprint, Len(shape)))

Engine == [ranks |-> ranks, prev |-> prev, next |-> next, cur |-> cur, nbi |-> nbi]

\* The walk stands at a position whose neighbours are still to be visited.
Visiting(e, strides, image_stride) ==
    /\ e.cur # Terminator
    /\ e.cur < image_stride
    /\ e.ranks[e.cur] # 0
    /\ e.nbi < Len(strides)

NeighborIdx(e, strides) == e.cur + strides[e.nbi + 1]

\* The neighbour is to be raised: every index read lies in the buffer, and
\* the neighbour ranks below the current position and below its mask.
Propagates(e, strides, image_stride) ==
    LET n == NeighborIdx(e, strides)
    IN  /\ n \in DOMAIN e.ranks
        /\ e.ranks[n] < e.ranks[e.cur]
        /\ n + image_stride \in DOMAIN e.ranks
        /\ e.ranks[n] < e.ranks[n + image_stride]

\* The visit reads or writes outside the arrays: ranks[neighbor_idx],
\* ranks[neighbor_idx + image_stride], or next[prev[neighbor_idx]] when the
\* neighbour heads the list.
OutOfBuffer(e, strides, image_stride) ==
    LET n == NeighborIdx(e, strides)
    IN  IF n \notin DOMAIN e.ranks THEN TRUE
        ELSE IF e.ranks[n] >= e.ranks[e.cur] THEN FALSE
        ELSE IF n + image_stride \notin DOMAIN e.ranks THEN TRUE
        ELSE e.ranks[n] < e.ranks[n + image_stride] /\ e.prev[n] = Terminator

\* The neighbour raised and relinked.
Raise(e, strides, image_stride) ==
    LET n == NeighborIdx(e, strides)
        current_rank == e.ranks[e.cur]
        mask_rank == e.ranks[n + image_stride]
        current_link == IF mask_rank < current_rank THEN n + image_stride ELSE e.cur
        new_rank == IF mask_rank < current_rank THEN mask_rank ELSE current_rank
        \* unlink the neighbour
        nprev == e.prev[n]
        nnext == e.next[n]
        next1 == IF nprev # Terminator THEN [e.next EXCEPT ![nprev] = nnext] ELSE e.next
        prev1 == IF nnext # Terminator THEN [e.prev EXCEPT ![nnext] = nprev] ELSE e.prev
        \* link the neighbour after current_link
        lnext == next1[current_link]
        next2 == [next1 EXCEPT ![n] = lnext, ![current_link] = n]
        prev2 == [prev1 EXCEPT ![n] = current_link]
        prev3 == IF lnext # Terminator THEN [prev2 EXCEPT ![lnext] = n] ELSE prev2
    IN  [ranks |-> [e.ranks EXCEPT ![n] = new_rank],
         prev |-> prev3, next |-> next2, cur |-> e.cur, nbi |-> e.nbi + 1]

\* One neighbour visited.  A read outside the arrays that does not end the
\* process returns a value that fails the rank test; a write outside them
\* changes no array.
VisitNeighbor(e, strides, image_stride) ==
    IF Propagates(e, strides, image_stride)
    THEN Raise(e, strides, image_stride)
    ELSE [e EXCEPT !.nbi = @ + 1]

\* current_idx = next[current_idx]
Advance(e) == [e EXCEPT !.cur = e.next[e.cur], !.nbi = 0]

Advancing(e, strides, image_stride) ==
    /\ e.cur # Terminator
    /\ IF e.cur >= image_stride THEN TRUE
       ELSE e.ranks[e.cur] # 0 /\ e.nbi >= Len(strides)

Exiting(e, image_stride) ==
    IF e.cur = Terminator THEN TRUE
    ELSE e.cur < image_stride /\ e.ranks[e.cur] = 0

\* The whole loop, from engine state e to the state it returns in, every
\* access outside the arrays taken as one that leaves the arrays alone.
RECURSIVE RunLoop(_, _, _)
RunLoop(e, strides, image_stride) ==
    IF Exiting(e, image_stride) THEN e
    ELSE IF Visiting(e, strides, image_stride)
    THEN RunLoop(VisitNeighbor(e, strides, image_stride), strides, image_stride)
    ELSE RunLoop(Advance(e), strides, image_stride)

SetEngine(e) ==
    /\ ranks' = e.ranks
    /\ prev' = e.prev
    /\ next' = e.next
    /\ cur' = e.cur
    /\ nbi' = e.nbi

LoopNeighbor ==
    /\ pc = "loop"
    /\ Visiting(Engine, nb_strides, ImageStrideNow)
    /\ SetEngine(VisitNeighbor(Engine, nb_strides, ImageStrideNow))
    /\ UNCHANGED <<seed, mask, shape, mshape, method, dtype, footprint, offset,
                   ties, pc, fp, off, images, nb_strides, value_map, start,
                   result, call, out1>>

\* An access outside the arrays may also end the process.
LoopFault ==
    /\ pc = "loop"
    /\ Visiting(Engine, nb_strides, ImageStrideNow)
    /\ OutOfBuffer(Engine, nb_strides, ImageStrideNow)
    /\ pc' = "fault"
    /\ UNCHANGED <<seed, mask, shape, mshape, method, dtype, footprint, offset,
                   ties, fp, off, images, nb_strides, ranks, prev, next,
                   value_map, start, cur, nbi, result, call, out1>>

LoopAdvance ==
    /\ pc = "loop"
    /\ Advancing(Engine, nb_strides, ImageStrideNow)
    /\ SetEngine(Advance(Engine))
    /\ UNCHANGED <<seed, mask, shape, mshape, method, dtype, footprint, offset,
                   ties, pc, fp, off, images, nb_strides, value_map, start,
                   result, call, out1>>

LoopExit ==
    /\ pc = "loop"
    /\ Exiting(Engine, ImageStrideNow)
    /\ pc' = "extract"
    /\ UNCHANGED <<seed, mask, shape, mshape, method, dtype, footprint, offset,
                   ties, fp, off, images, nb_strides, ranks, prev, next,
                   value_map, start, cur, nbi, result, call, out1>>

-----------------------------------------------------------------------------
(* Lines 244-249: ranks back to values, padding removed. *)

\* Flat position, in the padded seed channel, of image coordinate c.
PaddedPos(c, o, sshape, fshape) ==
    Dot(CStrides(PaddedShape(sshape, fshape)), [i \in 1..Len(sshape) |-> c[i] + o[i]])

\* Flat position of the image's j-th sample (C order, j from 1).
PosOf(j, o, sshape, fshape) == PaddedPos(Unravel(j - 1, sshape), o, sshape, fshape)

RecImg(rk, vmap, o, sshape, fshape) ==
    [j \in 1..Prod(sshape) |-> vmap[rk[PosOf(j, o, sshape, fshape)]]]

Extract ==
    /\ pc = "extract"
    /\ result' = RecImg(ranks, value_map, off, shape, FootprintShape(footprint, Len(shape)))
    /\ pc' = "done"
    /\ UNCHANGED <<seed, mask, shape, mshape, method, dtype, footprint, offset,
                   ties, fp, off, images, nb_strides, ranks, prev, next,
                   value_map, start, cur, nbi, call, out1>>

-----------------------------------------------------------------------------
(* A second call: reconstruction(out, mask) with the same method,          *)
(* footprint and offset, out being the image the first call returned.  A   *)
(* first call run under every order is followed by one under the index     *)
(* rule.                                                                   *)

Reapply ==
    /\ pc = "done"
    /\ call = 1
    /\ seed' = result
    /\ out1' = result
    /\ call' = 2
    /\ pc' = "check"
    /\ fp' = <<>> /\ off' = <<>> /\ images' = <<>> /\ nb_strides' = <<>>
    /\ ranks' = <<>> /\ prev' = <<>> /\ next' = <<>> /\ value_map' = <<>>
    /\ start' = Terminator /\ cur' = Terminator /\ nbi' = 0
    /\ result' = <<>>
    /\ ties' = IF ties = "any" THEN "index" ELSE ties
    /\ UNCHANGED <<mask, shape, mshape, method, dtype, footprint, offset>>

Next ==
    \/ Validate
    \/ PrepareFootprint
    \/ BuildLayout
    \/ SortAndLink
    \/ RankTransform
    \/ LoopNeighbor
    \/ LoopFault
    \/ LoopAdvance
    \/ LoopExit
    \/ Extract
    \/ Reapply

-----------------------------------------------------------------------------
(* Calls.  A call is a record of the arguments; the run starts at line 135. *)

NoFootprint == [given |-> FALSE, shape |-> <<>>, cells |-> <<>>]
GivenFootprint(fshape, cells) == [given |-> TRUE, shape |-> fshape, cells |-> cells]
NoOffset == [given |-> FALSE, ndim |-> 0, coords |-> <<>>]
\* np.array of coordinates: a one-dimensional array, whatever its length.
GivenOffset(coords) == [given |-> TRUE, ndim |-> 1, coords |-> coords]

Vals == 0..MaxVal
Samples(n, V) == [1..n -> V]
UpTo(n, V) == UNION {Samples(k, V) : k \in 1..n}

Ordered(meth, s, m) ==
    IF meth = "dilation" THEN ~SeedAboveMask(s, m) ELSE ~SeedBelowMask(s, m)

Call(s, m, sshape, msh, meth, t, f, o, r) ==
    [seed |-> s, mask |-> m, shape |-> sshape, mshape |-> msh, method |-> meth,
     dtype |-> t, footprint |-> f, offset |-> o, ties |-> r]

\* Footprint and offset arguments for one-dimensional images.
Shapes1D ==
    {[footprint |-> NoFootprint, offset |-> NoOffset]}
    \cup {[footprint |-> GivenFootprint(<<3>>, c), offset |-> NoOffset] :
            c \in {<<TRUE, TRUE, FALSE>>, <<FALSE, TRUE, FALSE>>}}
    \cup {[footprint |-> GivenFootprint(<<3>>, <<TRUE, TRUE, TRUE>>),
           offset |-> GivenOffset(<<0>>)],
          [footprint |-> GivenFootprint(<<2>>, <<TRUE, TRUE>>),
           offset |-> GivenOffset(<<1>>)]}

\* Method and element type; negation is exact for float64 alone.
Kinds == {<<"dilation", "float64">>, <<"erosion", "float64">>, <<"erosion", "uint8">>}

\* Seed and mask of one length n <= maxlen over V, as pairs.
Pairs(maxlen, V) ==
    UNION {Samples(n, V) \X Samples(n, V) : n \in 1..maxlen}

\* Footprint, offset and tie rule of the runs on one-dimensional images; the
\* reverse tie rule is run with the default footprint.
Runs1D ==
    {<<g, "index">> : g \in Shapes1D}
    \cup {<<[footprint |-> NoFootprint, offset |-> NoOffset], "reverse">>}

\* Calls on one-dimensional images of up to MaxLen samples.
Calls1D ==
    {Call(p[1], p[2], <<Len(p[1])>>, <<Len(p[2])>>, k[1], k[2],
          g[1].footprint, g[1].offset, g[2]) :
        p \in Pairs(MaxLen, Vals), k \in Kinds, g \in Runs1D}

\* Footprints for two-dimensional images: the default 3x3 square and the cross.
Cross == <<FALSE, TRUE, FALSE, TRUE, TRUE, TRUE, FALSE, TRUE, FALSE>>
Shapes2D ==
    {[footprint |-> NoFootprint, offset |-> NoOffset],
     [footprint |-> GivenFootprint(<<3, 3>>, Cross), offset |-> NoOffset]}

\* Calls on images one pixel wide or one pixel high.
Calls2D ==
    {Call(p[1], p[2], sh, sh, k[1], k[2], g.footprint, g.offset, "index") :
        p \in Samples(2, Vals) \X Samples(2, Vals),
        sh \in {<<1, 2>>, <<2, 1>>},
        k \in Kinds \cup {<<"dilation", "uint8">>}, g \in Shapes2D}

\* Calls on signed 8-bit images that hold the least value of the type.
CallsSigned ==
    {Call(p[1], p[2], <<Len(p[1])>>, <<Len(p[2])>>, meth, "int8",
          NoFootprint, NoOffset, "index") :
        p \in Pairs(2, {Int8Min, 0, 1}), meth \in {"dilation", "erosion"}}

\* Offset arguments tried against a footprint: none, coordinates inside and
\* outside it, and coordinate vectors of another length.
Offsets1D == {NoOffset} \cup {GivenOffset(<<o>>) : o \in -1..3} \cup {GivenOffset(<<1, 1>>)}
Offsets2D ==
    {NoOffset, GivenOffset(<<1>>)}
    \cup {GivenOffset(<<a, b>>) : a \in {0, 1}, b \in {1, 3}}

\* Calls of every kind, valid or not, on images of one or two samples.
CallsChecked1D ==
    {Call(p[1], p[2], <<Len(p[1])>>, <<Len(p[2])>>, meth, t, f, o, "index") :
        p \in UpTo(2, 0..1) \X UpTo(2, 0..1),
        meth \in {"dilation", "erosion", "opening"}, t \in {"float64", "uint8"},
        f \in {NoFootprint, GivenFootprint(<<3>>, <<TRUE, TRUE, TRUE>>),
               GivenFootprint(<<2>>, <<TRUE, TRUE>>)},
        o \in Offsets1D}

CallsChecked2D ==
    {Call(p[1], p[2], <<1, 2>>, msh, meth, "float64", f, o, "index") :
        p \in Samples(2, 0..1) \X Samples(2, 0..1),
        msh \in {<<1, 2>>, <<2, 1>>},
        meth \in {"dilation", "erosion", "opening"},
        f \in {NoFootprint, GivenFootprint(<<3, 3>>, [k \in 1..9 |-> TRUE]),
               GivenFootprint(<<2, 2>>, [k \in 1..4 |-> TRUE])},
        o \in Offsets2D}

\* Calls whose buffer holds few equal values beside the border, run under
\* every order the sort may return for equal values and every order of the
\* neighbour deltas: a dilation that raises the low sample of the seed, and
\* its mirror image as an erosion.
TieSeeds == {<<0, 1>>, <<1, 0>>}
TieMasks(s) ==
    {[i \in 1..2 |-> IF s[i] = 0 THEN MaxVal ELSE s[i]], [i \in 1..2 |-> MaxVal]}
Mirror(v) == [i \in DOMAIN v |-> MaxVal - v[i]]
TieShapes ==
    {[footprint |-> NoFootprint, offset |-> NoOffset],
     [footprint |-> GivenFootprint(<<3>>, <<TRUE, TRUE, TRUE>>),
      offset |-> GivenOffset(<<0>>)]}
CallsAnyOrder ==
    {Call(s, m, <<2>>, <<2>>, "dilation", "float64", g.footprint, g.offset, "any") :
        s \in TieSeeds, m \in UNION {TieMasks(x) : x \in TieSeeds}, g \in TieShapes}
    \cup {Call(Mirror(s), Mirror(m), <<2>>, <<2>>, "erosion", t, g.footprint, g.offset, "any") :
            s \in TieSeeds, m \in UNION {TieMasks(x) : x \in TieSeeds},
            t \in {"float64", "uint8"}, g \in TieShapes}

ValidCall(c) ==
    /\ c.shape = c.mshape
    /\ MethodKnown(c.method)
    /\ Ordered(c.method, c.seed, c.mask)

StartCall(c) ==
    /\ seed = c.seed /\ mask = c.mask
    /\ shape = c.shape /\ mshape = c.mshape
    /\ method = c.method /\ dtype = c.dtype
    /\ footprint = c.footprint /\ offset = c.offset
    /\ ties = c.ties
    /\ pc = "check"
    /\ fp = <<>> /\ off = <<>> /\ images = <<>> /\ nb_strides = <<>>
    /\ ranks = <<>> /\ prev = <<>> /\ next = <<>> /\ value_map = <<>>
    /\ start = Terminator /\ cur = Terminator /\ nbi = 0
    /\ result = <<>>
    /\ call = 1 /\ out1 = <<>>

Init == \E c \in {x \in Calls1D \cup Calls2D \cup CallsSigned : ValidCall(x)} : StartCall(c)

Spec == Init /\ [][Next]_vars

InitValidation == \E c \in CallsChecked1D \cup CallsChecked2D : StartCall(c)

SpecValidation == InitValidation /\ [][Next]_vars

InitTies == \E c \in {x \in CallsAnyOrder : ValidCall(x)} : StartCall(c)

SpecTies == InitTies /\ [][Next]_vars

\* The interpreter runs the call to its end: a step that can be taken is taken.
LiveSpec == Init /\ [][Next]_vars /\ WF_vars(Next)

-----------------------------------------------------------------------------
(* Vocabulary of the properties. *)

FShapeNow == FootprintShape(footprint, Len(shape))
PaddedSize == ImageStrideNow

\* The engine has been entered and has not yet visited anything.
EngineStarts == pc = "loop" /\ cur = start /\ nbi = 0

\* The engine holds the arrays.
EngineHolds == pc \in {"loop", "extract", "done", "fault"}

\* Flat positions of the image samples, in the seed channel.
ImagePositions == {PosOf(j, off, shape, FShapeNow) : j \in 1..Prod(shape)}

\* Seed-channel positions of the padding.
PadPositions == (0..(PaddedSize - 1)) \ ImagePositions

\* The positions met by following next from k, k included.
RECURSIVE ChainFrom(_, _, _)
ChainFrom(nx, k, fuel) ==
    IF k = Terminator \/ fuel = 0 THEN <<>>
    ELSE <<k>> \o ChainFrom(nx, nx[k], fuel - 1)

NonIncreasing(rk, chain) ==
    \A a \in 1..(Len(chain) - 1) : rk[chain[a]] >= rk[chain[a + 1]]

WellLinked ==
    LET n == Cardinality(DOMAIN ranks)
        chain == ChainFrom(next, start, n + 1)
    IN  /\ Len(chain) = n
        /\ Range(chain) = DOMAIN ranks
        /\ prev[start] = Terminator
        /\ next[chain[n]] = Terminator
        /\ \A a \in 1..(n - 1) : prev[chain[a + 1]] = chain[a]

-----------------------------------------------------------------------------
(* Probes of the model: the engine on exact arithmetic. *)

ExactNegation == ~(method = "erosion" /\ dtype # "float64")

Probe_ListSorted ==
    (pc = "loop" /\ ExactNegation) =>
        /\ WellLinked
        /\ \A k \in DOMAIN ranks : ranks[start] >= ranks[k]
        /\ NonIncreasing(ranks, ChainFrom(next, start, Cardinality(DOMAIN ranks) + 1))

Probe_InBuffer ==
    (pc = "loop" /\ ExactNegation /\ Visiting(Engine, nb_strides, ImageStrideNow)) =>
        /\ cur \in ImagePositions
        /\ NeighborIdx(Engine, nb_strides) \in 0..(PaddedSize - 1)

Probe_NoFault == ExactNegation => pc # "fault"

-----------------------------------------------------------------------------
(* The reconstruction closure, over images of the call's shape. *)

\* Offsets (cell coordinate minus centre) of the footprint's active cells.
ActiveOffsets ==
    {[i \in 1..Len(FShapeNow) |-> Unravel(k - 1, FShapeNow)[i] - off[i]] :
        k \in {x \in 1..Len(fp) : fp[x]}}

InImage(c) == \A i \in 1..Len(shape) : 0 <= c[i] /\ c[i] < shape[i]
SampleAt(c) == Dot(CStrides(shape), c) + 1

\* Samples at p + sign * d, d an active offset, that lie inside the image.
Sources(j, sign) ==
    LET c == Unravel(j - 1, shape)
    IN  {SampleAt([i \in 1..Len(shape) |-> c[i] + sign * d[i]]) :
            d \in {x \in ActiveOffsets :
                      InImage([i \in 1..Len(shape) |-> c[i] + sign * x[i]])}}

Lesser(a, b) == IF a < b THEN a ELSE b
Greater(a, b) == IF a > b THEN a ELSE b

\* x >= seed and x[p] >= min(mask[p], x[q]) for every source q of p.
ClosedUnderDilation(x, sign) ==
    \A j \in 1..Len(seed) :
        /\ x[j] >= seed[j]
        /\ \A q \in Sources(j, sign) : x[j] >= Lesser(mask[j], x[q])

Candidates == [1..Len(seed) -> Range(seed) \cup Range(mask)]

LeastClosed(x, sign) ==
    /\ ClosedUnderDilation(x, sign)
    /\ \A y \in Candidates :
          ClosedUnderDilation(y, sign) => \A j \in 1..Len(seed) : x[j] <= y[j]

\* The dual: x <= seed and x[p] <= max(mask[p], x[q]).
ClosedUnderErosion(x, sign) ==
    \A j \in 1..Len(seed) :
        /\ x[j] <= seed[j]
        /\ \A q \in Sources(j, sign) : x[j] <= Greater(mask[j], x[q])

GreatestClosed(x, sign) ==
    /\ ClosedUnderErosion(x, sign)
    /\ \A y \in Candidates :
          ClosedUnderErosion(y, sign) => \A j \in 1..Len(seed) : x[j] >= y[j]

Probe_ErosionAll ==
    (pc = "done" /\ method = "erosion") => GreatestClosed(result, -1)

-----------------------------------------------------------------------------
\* The value the engine currently holds for the image's j-th sample.
ValueAt(j) == value_map[ranks[PosOf(j, off, shape, FShapeNow)]]

InitialRank(k) == ValueRank(images, method, dtype)[k]

\* C2: while the engine holds the arrays and in the returned image, under
\* dilation seed[p] <= value[p] <= mask[p] at every image position p, the
\* rank of p never above the rank of p + image_stride nor below its initial
\* rank; under erosion mask[p] <= value[p] <= seed[p].
C2_Bounds ==
    EngineHolds =>
        \A j \in 1..Len(seed) :
            LET p == PosOf(j, off, shape, FShapeNow)
            IN  IF method = "dilation"
                THEN /\ seed[j] <= ValueAt(j) /\ ValueAt(j) <= mask[j]
                     /\ ranks[p] <= ranks[p + ImageStrideNow]
                     /\ ranks[p] >= InitialRank(p)
                     /\ pc = "done" => (seed[j] <= result[j] /\ result[j] <= mask[j])
                ELSE /\ mask[j] <= ValueAt(j) /\ ValueAt(j) <= seed[j]
                     /\ pc = "done" => (mask[j] <= result[j] /\ result[j] <= seed[j])

\* The engine has raised a position strictly between its seed and its mask.
C2_Witness ==
    /\ pc = "loop"
    /\ \E j \in 1..Len(seed) :
          /\ ValueAt(j) # seed[j]
          /\ ValueAt(j) # mask[j]

\* C4: the second call, reconstruction(out, mask), passes the seed/mask
\* ordering check and the image it returns is out; and the image a call
\* with seed = mask returns is mask, under either method.
C4_Stable ==
    /\ call = 2 => pc # "InvalidSeedMask"
    /\ (call = 2 /\ pc = "done") => result = out1
    /\ (pc = "done" /\ seed = mask) => result = mask

\* The second call has returned an image that is neither flat nor the mask.
C4_Witness ==
    /\ call = 2 /\ pc = "done"
    /\ result = out1
    /\ out1 # mask
    /\ \E i, j \in 1..Len(out1) : out1[i] # out1[j]

\* C3: once the engine is entered the walk reaches the terminator and the
\* call returns its image.
C3_Terminates == (pc = "loop") ~> (pc = "done")

\* On element types with exact negation the walk ends and the call returns.
Probe_ExactTerminates == (pc = "loop" /\ ExactNegation) ~> (pc = "done")

\* C7: on entry to the engine, for buffer entries with values a < b,
\* rank(a) > rank(b) under erosion and rank(a) < rank(b) under dilation;
\* equal values share a rank; value_map[rank[i]] is the value at i.
C7_RankTransform ==
    EngineStarts =>
        \A i \in DOMAIN images :
            /\ value_map[ranks[i]] = images[i]
            /\ \A j \in DOMAIN images :
                  /\ images[i] = images[j] => ranks[i] = ranks[j]
                  /\ images[i] < images[j] =>
                        IF method = "erosion" THEN ranks[i] > ranks[j]
                        ELSE ranks[i] < ranks[j]

\* C8: throughout the engine's run prev/next form one chain from start
\* through every flat position to the terminator, start has the highest
\* rank, and ranks from the current position on are non-increasing.
C8_SortedList ==
    pc = "loop" =>
        /\ WellLinked
        /\ \A k \in DOMAIN ranks : ranks[start] >= ranks[k]
        /\ NonIncreasing(ranks, ChainFrom(next, cur, Cardinality(DOMAIN ranks) + 1))

\* C9: no neighbour delta is 0; every neighbour index the engine evaluates
\* lies in [0, padded_size); padding keeps its sentinel rank and is never
\* the position that raises a neighbour.
C9_NeighbourSafe ==
    /\ pc \in {"sort", "rank", "loop", "extract", "done", "fault"} =>
          \A i \in 1..Len(nb_strides) : nb_strides[i] # 0
    /\ (pc = "loop" /\ Visiting(Engine, nb_strides, ImageStrideNow)) =>
          /\ NeighborIdx(Engine, nb_strides) \in 0..(PaddedSize - 1)
          /\ cur \notin PadPositions
    /\ EngineHolds => \A p \in PadPositions : ranks[p] = InitialRank(p)

-----------------------------------------------------------------------------
(* Validation. *)

ShapesDiffer == shape # mshape
Misordered ==
    /\ shape = mshape
    /\ \/ method = "dilation" /\ SeedAboveMask(seed, mask)
       \/ method = "erosion" /\ SeedBelowMask(seed, mask)
EvenDefault == ~offset.given /\ ~AllOdd(FShapeNow)
UnknownMethod == method \notin {"dilation", "erosion"}

Errors == {"ShapeMismatch", "InvalidSeedMask", "InvalidFootprint", "InvalidOffset",
           "IndexError", "InvalidMethod"}

\* C5: a call whose shapes differ, whose seed is on the wrong side of its
\* mask for the method, whose footprint has an even extent with no offset
\* given, or whose method is unknown, is still being validated or has ended
\* in an error: the engine is never entered, no array of it is built and no
\* image is returned; and each of the four errors is raised only for its
\* own condition.
C5_InvalidNeverRuns ==
    /\ (ShapesDiffer \/ Misordered \/ EvenDefault \/ UnknownMethod) =>
          /\ pc \in {"check", "footprint", "layout"} \cup Errors
          /\ ranks = <<>> /\ prev = <<>> /\ next = <<>>
          /\ result = <<>>
    /\ pc = "ShapeMismatch" => ShapesDiffer
    /\ pc = "InvalidSeedMask" => Misordered
    /\ pc = "InvalidFootprint" => EvenDefault
    /\ pc = "InvalidMethod" => UnknownMethod

\* A call with an unknown method and a seed above its mask has passed the
\* ordering check and the footprint stage and ended in InvalidMethod.
C5_Witness ==
    /\ pc = "InvalidMethod"
    /\ SeedAboveMask(seed, mask)
    /\ images = <<>>

\* An offset with one coordinate per footprint axis, each inside its extent.
GoodOffset ==
    /\ Len(offset.coords) = Len(FShapeNow)
    /\ \A i \in 1..Len(FShapeNow) :
          0 <= offset.coords[i] /\ offset.coords[i] < FShapeNow[i]

\* C6: once the footprint stage has decided, a given offset that is one
\* in-range coordinate per footprint axis has been accepted, whatever the
\* footprint's rank and also with even extents, and is the centre in use:
\* InvalidOffset is raised only for an offset that lacks a coordinate for
\* some axis, has one too many, or has one outside its extent.
C6_OffsetCheck ==
    (offset.given /\ pc \notin {"check", "footprint", "ShapeMismatch", "InvalidSeedMask"}) =>
        /\ pc = "InvalidOffset" => ~GoodOffset
        /\ GoodOffset => off = offset.coords

-----------------------------------------------------------------------------
(* Independence of the orders. *)

\* The engine's run under the index tie rule and the deltas in the order of
\* line 212, from the buffer of the current call.
ReferenceRun ==
    LET index_sorted == IndexSorted(FixedArgsort(images, "index"), method)
        e0 == [ranks |-> ValueRank(images, method, dtype),
               prev |-> LinkPrev(index_sorted), next |-> LinkNext(index_sorted),
               cur |-> index_sorted[0], nbi |-> 0]
    IN  RunLoop(e0, NbStrides(fp, FShapeNow, off, shape), ImageStrideNow)

=============================================================================
